---- MODULE Spec2Model ----
(***************************************************************************)
(* A model of server.js: the time-gated quiz server.  Two HTTP handlers    *)
(* (GET /api/data/:email and POST /api/submit) run as asynchronous tasks   *)
(* over one external record store (the users, words and questions tables). *)
(* A handler runs without interruption between two awaits; every await is  *)
(* one call of the record store.  One action of the model is one store     *)
(* call together with the handler code that follows it up to the next      *)
(* await (or the response).  A store call returns {data, error}: it does   *)
(* not throw, so an error aborts the handler only where the code tests it. *)
(*                                                                         *)
(* Texts (durations such as "00:05:30") are sequences of one-character     *)
(* strings.  Milliseconds are natural numbers.                             *)
(***************************************************************************)
EXTENDS Integers, Sequences, FiniteSets, Bags, TLC

VARIABLES
    now,      \* the wall clock: <<UTC hour, UTC minute>>
    users,    \* the users table: a bag of rows
    pc,       \* per handler slot: the await the handler is suspended at
    loc,      \* per handler slot: the handler's local variables
    calls,    \* per handler slot: the store calls made so far, with their outcome
    last,     \* the request that ended last, its store calls and its response
    nreq,     \* number of requests taken up so far (bounds the model)
    learned,  \* history: a Learning read has succeeded in the current window
    credited  \* history: per email, the correct answers reported with success

vars == <<now, users, pc, loc, calls, last, nreq, learned, credited>>

(***************************************************************************)
(* Bounds and sample inputs                                                *)
(***************************************************************************)
MaxRequests == 3

Slots == {1, 2}
Emails == {"a", "b"}

MinutesPerHour == 60

\* The questions table (read-only): one accepted answer per word.
Questions == << [word |-> "cat", correct |-> "gato"],
                [word |-> "dog", correct |-> "perro"] >>

\* The words table (read-only).
WordsTable == << [word |-> "cat"], [word |-> "dog"] >>

\* Words a request may mention: "owl" has no question.
Words == {"cat", "dog", "owl"}
Answers == {"gato", "perro"}
Millis == {1500, 3000}

\* An optional value is a sequence of length 0 (absent) or 1.
None == << >>
Some(x) == << x >>

(***************************************************************************)
(* Text helpers: Number.prototype.toString, padStart, parseInt, the regex  *)
(***************************************************************************)
Digits == << "0", "1", "2", "3", "4", "5", "6", "7", "8", "9" >>

IsDigit(c) == \E d \in 1..10 : Digits[d] = c

DigitVal(c) == (CHOOSE d \in 1..10 : Digits[d] = c) - 1

RECURSIVE NatToStr(_)
NatToStr(n) ==
    IF n < 10 THEN << Digits[n + 1] >>
    ELSE NatToStr(n \div 10) \o << Digits[(n % 10) + 1] >>

\* A slip in the padding: the text is cut to its last two characters.
PadStart2Cut(s) == IF Len(s) < 2 THEN << "0" >> \o s ELSE SubSeq(s, Len(s) - 1, Len(s))

\* padStart(2, '0')
PadStart2(s) == IF Len(s) < 2 THEN << "0" >> \o s ELSE s

RECURSIVE StrToNat(_)
StrToNat(s) ==
    IF s = << >> THEN 0
    ELSE StrToNat(SubSeq(s, 1, Len(s) - 1)) * 10 + DigitVal(s[Len(s)])

\* The end of the longest run of digits of s that starts at i (i - 1: none).
RECURSIVE DigitRunEnd(_, _)
DigitRunEnd(s, i) ==
    IF i <= Len(s) /\ IsDigit(s[i]) THEN DigitRunEnd(s, i + 1) ELSE i - 1

CharAt(s, i) == IF i >= 1 /\ i <= Len(s) THEN s[i] ELSE ""

\* The match of /(\d+):(\d+):(\d+\.?\d*)/ that starts at i, as the ends of
\* its groups, or << >> when there is none at i.
MatchAt(s, i) ==
    LET e1 == DigitRunEnd(s, i)
        e2 == DigitRunEnd(s, e1 + 2)
        e3 == DigitRunEnd(s, e2 + 2)
        e4 == IF CharAt(s, e3 + 1) = "." THEN DigitRunEnd(s, e3 + 2) ELSE e3
    IN  IF /\ e1 >= i
           /\ CharAt(s, e1 + 1) = ":"
           /\ e2 >= e1 + 2
           /\ CharAt(s, e2 + 1) = ":"
           /\ e3 >= e2 + 2
        THEN << [h |-> SubSeq(s, i, e1),
                 m |-> SubSeq(s, e1 + 2, e2),
                 s |-> SubSeq(s, e2 + 2, e3),
                 f |-> IF e4 > e3 + 1 THEN SubSeq(s, e3 + 2, e4) ELSE << >>] >>
        ELSE << >>

\* String.prototype.match: the leftmost match.
TimeMatch(s) ==
    LET starts == { i \in 1..Len(s) : MatchAt(s, i) # << >> }
    IN  IF starts = {} THEN << >>
        ELSE MatchAt(s, CHOOSE i \in starts : \A j \in starts : i <= j)

\* The fraction digits of a seconds text in milliseconds (".5" is 500).
FracMs(f) ==
    LET d(k) == IF k <= Len(f) THEN DigitVal(f[k]) ELSE 0
    IN  d(1) * 100 + d(2) * 10 + d(3)

(***************************************************************************)
(* The duration codec                                                      *)
(***************************************************************************)
\* A slip in the pattern: hours and minutes are enough for a match.
intervalToMsTwoFields(interval) ==
    IF interval = << >> THEN 0
    ELSE LET e1 == DigitRunEnd(interval, 1)
             e2 == DigitRunEnd(interval, e1 + 2)
         IN  IF e1 >= 1 /\ CharAt(interval, e1 + 1) = ":" /\ e2 >= e1 + 2
             THEN (StrToNat(SubSeq(interval, 1, e1)) * 3600
                     + StrToNat(SubSeq(interval, e1 + 2, e2)) * 60) * 1000
             ELSE 0

\* intervalToMs: an absent or empty text is 0, a text without the pattern is 0.
intervalToMs(interval) ==
    IF interval = << >> THEN 0
    ELSE LET timeMatch == TimeMatch(interval)
         IN  IF timeMatch # << >>
             THEN LET hours == StrToNat(timeMatch[1].h)
                      minutes == StrToNat(timeMatch[1].m)
                      secondsMs == StrToNat(timeMatch[1].s) * 1000
                                     + FracMs(timeMatch[1].f)
                  IN  (hours * 3600 + minutes * 60) * 1000 + secondsMs
             ELSE 0

\* The HH:MM:SS text of a millisecond count (this attempt's time).
intervalString(totalTimeMs) ==
    LET totalSeconds == totalTimeMs \div 1000
        hours == totalSeconds \div 3600
        minutes == (totalSeconds % 3600) \div 60
        seconds == totalSeconds % 60
    IN  PadStart2(NatToStr(hours)) \o << ":" >>
          \o PadStart2(NatToStr(minutes)) \o << ":" >>
          \o PadStart2(NatToStr(seconds))

\* The HH:MM:SS text of the cumulative millisecond count.
newIntervalString(newTotalTimeMs) ==
    LET newTotalSeconds == newTotalTimeMs \div 1000
        newHours == newTotalSeconds \div 3600
        newMinutes == (newTotalSeconds % 3600) \div 60
        newSeconds == newTotalSeconds % 60
    IN  PadStart2(NatToStr(newHours)) \o << ":" >>
          \o PadStart2(NatToStr(newMinutes)) \o << ":" >>
          \o PadStart2(NatToStr(newSeconds))

(***************************************************************************)
(* The phase selector                                                      *)
(***************************************************************************)
\* getUTCHours() + getUTCMinutes() / 60, in sixtieths of an hour.
getCurrentUTCHour(t) == t[1] * MinutesPerHour + t[2]

\* A slip in the first test: 20:00 still counts as the learning window.
ReadBranchLateQuiz(currentHour) ==
    IF currentHour >= 0 /\ currentHour <= 20 * MinutesPerHour THEN "words"
    ELSE IF currentHour >= 20 * MinutesPerHour
              /\ 2 * currentHour < 41 * MinutesPerHour THEN "questions"
    ELSE "rankings"

\* The branch of the GET handler: 20 and 20.5 hours in sixtieths.
ReadBranch(currentHour) ==
    IF currentHour >= 0 /\ currentHour < 20 * MinutesPerHour THEN "words"
    ELSE IF currentHour >= 20 * MinutesPerHour
              /\ 2 * currentHour < 41 * MinutesPerHour THEN "questions"
    ELSE "rankings"

(***************************************************************************)
(* The record store                                                        *)
(***************************************************************************)
Row(email, count, time, rank) ==
    [email |-> email, number_of_correct_ans |-> count, time |-> time, rank |-> rank]

\* The number of rows of the table among the (distinct) rows S.
RECURSIVE CountRows(_, _)
CountRows(table, S) ==
    IF S = {} THEN 0
    ELSE LET x == CHOOSE y \in S : TRUE
         IN  table[x] + CountRows(table, S \ {x})

\* The table with every row x replaced by f[x].
MapRows(table, f) ==
    IF table = EmptyBag THEN EmptyBag
    ELSE [y \in { f[x] : x \in DOMAIN table } |->
             CountRows(table, { x \in DOMAIN table : f[x] = y })]

\* .eq('email', email): the number of rows with this email.
RowsOf(table, email) ==
    CountRows(table, { x \in DOMAIN table : x.email = email })

\* The value the store orders the time column by: the duration the text denotes.
TimeValue(row) == intervalToMs(row.time)

\* .order('number_of_correct_ans', descending).order('time', ascending):
\* row x may come before row y.
OrderedBefore(x, y) ==
    \/ x.number_of_correct_ans > y.number_of_correct_ans
    \/ /\ x.number_of_correct_ans = y.number_of_correct_ans
       /\ TimeValue(x) <= TimeValue(y)

\* Every result the ordered select may return: all the rows, in an order that
\* agrees with the sort keys (rows with equal keys come in any order).
OrderedSelects(table) ==
    LET n == BagCardinality(table)
    IN  { s \in [1..n -> DOMAIN table] :
            /\ \A x \in DOMAIN table : Cardinality({ i \in 1..n : s[i] = x }) = table[x]
            /\ \A i, j \in 1..n : i < j => OrderedBefore(s[i], s[j]) }

\* users.map((user, index) => ({...user, rank: index + 1}))
AssignRanks(selected) ==
    [i \in DOMAIN selected |-> [selected[i] EXCEPT !.rank = i]]

\* A slip in the update: the filter on the email is left out.
UpdateRankAll(table, email, rank) ==
    MapRows(table, [x \in DOMAIN table |-> [x EXCEPT !.rank = rank]])

\* .update({rank}).eq('email', email)
UpdateRank(table, email, rank) ==
    MapRows(table, [x \in DOMAIN table |->
                      IF x.email = email THEN [x EXCEPT !.rank = rank] ELSE x])

\* A slip in the reset: the scores are cleared with the ranks.
ResetRanksAndScores(table) ==
    MapRows(table, [x \in DOMAIN table |->
                      IF x.email # ""
                      THEN [x EXCEPT !.rank = 0, !.number_of_correct_ans = 0]
                      ELSE x])

\* .update({rank: 0}).neq('email', '')
ResetRanks(table) ==
    MapRows(table, [x \in DOMAIN table |->
                      IF x.email # "" THEN [x EXCEPT !.rank = 0] ELSE x])

\* A slip in the update: the filter on the email is left out.
UpdateUserAll(table, email, count, time) ==
    MapRows(table, [x \in DOMAIN table |->
                      [x EXCEPT !.number_of_correct_ans = count, !.time = time]])

\* A slip in the update: the time column is left out.
UpdateUserCountOnly(table, email, count, time) ==
    MapRows(table, [x \in DOMAIN table |->
                      IF x.email = email
                      THEN [x EXCEPT !.number_of_correct_ans = count]
                      ELSE x])

\* .update({number_of_correct_ans, time}).eq('email', email)
UpdateUser(table, email, count, time) ==
    MapRows(table, [x \in DOMAIN table |->
                      IF x.email = email
                      THEN [x EXCEPT !.number_of_correct_ans = count, !.time = time]
                      ELSE x])

\* A slip in the insert: the new record starts with rank 1.
InsertUserRanked(table, email, count, time) ==
    table (+) SetToBag({ Row(email, count, time, 1) })

\* .insert({email, number_of_correct_ans, time, rank: 0})
InsertUser(table, email, count, time) ==
    table (+) SetToBag({ Row(email, count, time, 0) })

\* .select('*').eq('email', email).single(): the row when exactly one row
\* matches; with no row or with several rows data is null.
SelectSingle(table, email) ==
    IF RowsOf(table, email) = 1
    THEN Some(CHOOSE x \in DOMAIN table : x.email = email)
    ELSE None

(***************************************************************************)
(* The submission aggregator                                               *)
(***************************************************************************)
\* questions.find(q => q.word === word): the first question of the word.
FindQuestion(questions, word) ==
    LET hits == { i \in DOMAIN questions : questions[i].word = word }
    IN  IF hits = {} THEN None
        ELSE Some(questions[CHOOSE i \in hits : \A j \in hits : i <= j])

\* A slip in the test: any answer to a word that has a question counts.
IsCorrectAnyAnswer(questions, word, answer) ==
    FindQuestion(questions, word) # None

\* The loop body's test: question && question.correct === answer
IsCorrect(questions, word, answer) ==
    LET question == FindQuestion(questions, word)
    IN  question # None /\ question[1].correct = answer

\* The loop body's time: time[word] when it is truthy, else nothing is added.
TimeOf(time, word) ==
    IF word \in DOMAIN time /\ time[word] # 0 THEN time[word] ELSE 0

\* The loop over Object.entries(answers): the correct count.
RECURSIVE CountLoop(_, _, _)
CountLoop(questions, answers, todo) ==
    IF todo = {} THEN 0
    ELSE LET word == CHOOSE w \in todo : TRUE
         IN  (IF IsCorrect(questions, word, answers[word]) THEN 1 ELSE 0)
               + CountLoop(questions, answers, todo \ {word})

\* The loop over Object.entries(answers): the total time.
RECURSIVE TimeLoop(_, _)
TimeLoop(time, todo) ==
    IF todo = {} THEN 0
    ELSE LET word == CHOOSE w \in todo : TRUE
         IN  TimeOf(time, word) + TimeLoop(time, todo \ {word})

correctCount(questions, answers) == CountLoop(questions, answers, DOMAIN answers)

\* A slip in the loop: the times are summed over the time mapping's own keys.
totalTimeMsOverTimes(answers, time) == TimeLoop(time, DOMAIN time)

totalTimeMs(answers, time) == TimeLoop(time, DOMAIN answers)

\* !email || !answers || !time
MissingFields(body) ==
    \/ body.email = None \/ body.email = Some("")
    \/ body.answers = None
    \/ body.time = None

(***************************************************************************)
(* Requests and responses                                                  *)
(***************************************************************************)
NoLoc ==
    [kind |-> "none", email |-> "", hour |-> 0, answers |-> None, time |-> None,
     correctCount |-> 0, totalTimeMs |-> 0, existingUser |-> None,
     rankedUsers |-> << >>, idx |-> 0]

NoRes ==
    [status |-> 0, type |-> "none", data |-> << >>, user |-> None,
     correctAnswers |-> 0, totalQuestions |-> 0, timeTaken |-> << >>]

\* res.status(500).json({error})
ErrorRes == [NoRes EXCEPT !.status = 500, !.type = "error"]

\* A slip in the validation: the rejection is sent as a server error.
ValidationAsError == [NoRes EXCEPT !.status = 500, !.type = "error"]

\* res.status(400).json({error})
ValidationRes == [NoRes EXCEPT !.status = 400, !.type = "error"]

\* res.json({type, data, message})
ContentRes(type, data) == [NoRes EXCEPT !.status = 200, !.type = type, !.data = data]

\* A slip in the lookup: the top of the leaderboard is taken for any email.
FindUserTop(rankedUsers, email) ==
    IF rankedUsers = << >> THEN None ELSE Some(rankedUsers[1])

\* rankedUsers.find(u => u.email === email)
FindUser(rankedUsers, email) ==
    LET hits == { i \in DOMAIN rankedUsers : rankedUsers[i].email = email }
    IN  IF hits = {} THEN None
        ELSE Some(rankedUsers[CHOOSE i \in hits : \A j \in hits : i <= j])

\* res.json({type: 'rankings', data: {user, leaderboard}, message})
RankingsRes(rankedUsers, email) ==
    [NoRes EXCEPT !.status = 200, !.type = "rankings",
                  !.data = rankedUsers, !.user = FindUser(rankedUsers, email)]

\* res.json({success, correctAnswers, totalQuestions, timeTaken, message})
SubmitRes(l) ==
    [NoRes EXCEPT !.status = 200, !.type = "submit",
                  !.correctAnswers = l.correctCount,
                  !.totalQuestions = Cardinality(DOMAIN l.answers[1]),
                  !.timeTaken = intervalString(l.totalTimeMs)]

Call(op, ok) == [op |-> op, ok |-> ok]

\* What a handler was asked: the part of its locals that came with the request.
Request(l) == [kind |-> l.kind, email |-> l.email, answers |-> l.answers, time |-> l.time]

NoLast == [request |-> Request(NoLoc), calls |-> << >>, res |-> NoRes]

\* Slot r takes the next request: the free slot of the lowest number (the
\* slots only name the handlers that run at the same time).
Idle(r) == pc[r] = "idle" /\ \A q \in Slots : pc[q] = "idle" => r <= q

\* The handler of slot r makes store call op and goes on to its next await.
Logged(r, op, ok) ==
    /\ calls' = [calls EXCEPT ![r] = Append(@, Call(op, ok))]
    /\ UNCHANGED <<last, learned, credited>>

\* The handler of slot r, with locals l, ends with response x after the store
\* call op (outcome ok): the slot is free again.  The history variables note a
\* Learning read that succeeds while the window lasts, and the correct answers
\* a success response reports to the user.
Respond(r, l, op, ok, x) ==
    /\ pc' = [pc EXCEPT ![r] = "idle"]
    /\ loc' = [loc EXCEPT ![r] = NoLoc]
    /\ calls' = [calls EXCEPT ![r] = << >>]
    /\ last' = [request |-> Request(l), calls |-> Append(calls[r], Call(op, ok)),
                res |-> x]
    /\ learned' = (learned \/ (x.type = "words" /\ ReadBranch(getCurrentUTCHour(now)) = "words"))
    /\ credited' = IF x.type = "submit"
                   THEN [credited EXCEPT ![l.email] = @ + l.correctCount]
                   ELSE credited

(***************************************************************************)
(* GET /api/data/:email                                                    *)
(***************************************************************************)
\* The request arrives: the clock is read and the branch is chosen; the
\* branch's first store call is then pending.
ReadStart(r, email) ==
    /\ Idle(r)
    /\ nreq < MaxRequests
    /\ nreq' = nreq + 1
    /\ LET currentHour == getCurrentUTCHour(now)
           branch == ReadBranch(currentHour)
       IN  /\ loc' = [loc EXCEPT ![r] = [NoLoc EXCEPT !.kind = "read",
                                                     !.email = email,
                                                     !.hour = currentHour]]
           /\ pc' = [pc EXCEPT ![r] =
                        CASE branch = "words" -> "resetRanks"
                          [] branch = "questions" -> "selectQuestions"
                          [] OTHER -> "selectRanked"]
    /\ UNCHANGED <<now, users, calls, last, learned, credited>>

\* Learning: the reset of every rank; its outcome is not looked at.
ReadResetRanks(r) ==
    /\ pc[r] = "resetRanks"
    /\ \E ok \in BOOLEAN :
          /\ users' = IF ok THEN ResetRanks(users) ELSE users
          /\ Logged(r, "updateAllRanks", ok)
    /\ pc' = [pc EXCEPT ![r] = "selectWords"]
    /\ UNCHANGED <<now, loc, nreq>>

\* Learning: the select of the words, and the response.
ReadSelectWords(r) ==
    /\ pc[r] = "selectWords"
    /\ \E ok \in BOOLEAN :
          Respond(r, loc[r], "selectWords", ok,
                  IF ok THEN ContentRes("words", WordsTable) ELSE ErrorRes)
    /\ UNCHANGED <<now, users, nreq>>

\* Quiz: the select of the questions, and the response.
ReadSelectQuestions(r) ==
    /\ pc[r] = "selectQuestions"
    /\ \E ok \in BOOLEAN :
          Respond(r, loc[r], "selectQuestions", ok,
                  IF ok THEN ContentRes("questions", Questions) ELSE ErrorRes)
    /\ UNCHANGED <<now, users, nreq>>

\* Ranking: the ordered select of the users and the assignment of the ranks.
\* With no user the loop is empty and the response follows at once.
ReadSelectRanked(r) ==
    /\ pc[r] = "selectRanked"
    /\ \/ Respond(r, loc[r], "selectRanked", FALSE, ErrorRes)
       \/ \E selected \in OrderedSelects(users) :
             LET rankedUsers == AssignRanks(selected)
                 l == [loc[r] EXCEPT !.rankedUsers = rankedUsers, !.idx = 1]
             IN  IF rankedUsers = << >>
                 THEN Respond(r, l, "selectRanked", TRUE,
                              RankingsRes(rankedUsers, loc[r].email))
                 ELSE /\ Logged(r, "selectRanked", TRUE)
                      /\ loc' = [loc EXCEPT ![r] = l]
                      /\ pc' = [pc EXCEPT ![r] = "updateRank"]
    /\ UNCHANGED <<now, users, nreq>>

\* Ranking: one pass of the loop that stores the ranks; the outcome of the
\* update is not looked at.  After the last pass the response is sent.
ReadUpdateRank(r) ==
    /\ pc[r] = "updateRank"
    /\ LET user == loc[r].rankedUsers[loc[r].idx]
       IN  \E ok \in BOOLEAN :
              /\ users' = IF ok THEN UpdateRank(users, user.email, user.rank) ELSE users
              /\ IF loc[r].idx = Len(loc[r].rankedUsers)
                 THEN Respond(r, loc[r], "updateRank", ok,
                              RankingsRes(loc[r].rankedUsers, loc[r].email))
                 ELSE /\ Logged(r, "updateRank", ok)
                      /\ loc' = [loc EXCEPT ![r].idx = @ + 1]
                      /\ UNCHANGED pc
    /\ UNCHANGED <<now, nreq>>

(***************************************************************************)
(* POST /api/submit                                                        *)
(***************************************************************************)
\* The request arrives: the validation; a valid request asks for the questions.
SubmitStart(r, body) ==
    /\ Idle(r)
    /\ nreq < MaxRequests
    /\ nreq' = nreq + 1
    /\ IF MissingFields(body)
       THEN /\ pc' = [pc EXCEPT ![r] = "idle"]
            /\ last' = [request |-> [kind |-> "submit",
                                     email |-> IF body.email = None THEN ""
                                               ELSE body.email[1],
                                     answers |-> body.answers, time |-> body.time],
                        calls |-> << >>, res |-> ValidationRes]
            /\ UNCHANGED <<loc, calls>>
       ELSE /\ loc' = [loc EXCEPT ![r] = [NoLoc EXCEPT !.kind = "submit",
                                                      !.email = body.email[1],
                                                      !.answers = body.answers,
                                                      !.time = body.time]]
            /\ pc' = [pc EXCEPT ![r] = "submitQuestions"]
            /\ UNCHANGED <<calls, last>>
    /\ UNCHANGED <<now, users, learned, credited>>

\* The select of the questions, then the loop and the attempt's totals.
SubmitQuestions(r) ==
    /\ pc[r] = "submitQuestions"
    /\ \/ Respond(r, loc[r], "selectQuestions", FALSE, ErrorRes)
       \/ /\ Logged(r, "selectQuestions", TRUE)
          /\ loc' = [loc EXCEPT
                       ![r].correctCount = correctCount(Questions, loc[r].answers[1]),
                       ![r].totalTimeMs = totalTimeMs(loc[r].answers[1], loc[r].time[1])]
          /\ pc' = [pc EXCEPT ![r] = "selectUser"]
    /\ UNCHANGED <<now, users, nreq>>

\* The select of the user's record: only data is taken from the result, so a
\* failed select reads as "no record".
SubmitSelectUser(r) ==
    /\ pc[r] = "selectUser"
    /\ \E ok \in BOOLEAN :
          LET existingUser == IF ok THEN SelectSingle(users, loc[r].email) ELSE None
          IN  /\ Logged(r, "selectUser", ok)
              /\ loc' = [loc EXCEPT ![r].existingUser = existingUser]
              /\ pc' = [pc EXCEPT ![r] =
                           IF existingUser # None THEN "updateUser" ELSE "insertUser"]
    /\ UNCHANGED <<now, users, nreq>>

\* The record exists: the merge and the update, then the response.
SubmitUpdateUser(r) ==
    /\ pc[r] = "updateUser"
    /\ LET existingUser == loc[r].existingUser[1]
           existingTimeMs == intervalToMs(existingUser.time)
           newTotalTimeMs == existingTimeMs + loc[r].totalTimeMs
       IN  \/ /\ users' = UpdateUser(users, loc[r].email,
                                     existingUser.number_of_correct_ans
                                        + loc[r].correctCount,
                                     newIntervalString(newTotalTimeMs))
              /\ Respond(r, loc[r], "updateUser", TRUE, SubmitRes(loc[r]))
           \/ /\ Respond(r, loc[r], "updateUser", FALSE, ErrorRes)
              /\ UNCHANGED users
    /\ UNCHANGED <<now, nreq>>

\* No record was seen: the insert, then the response.
SubmitInsertUser(r) ==
    /\ pc[r] = "insertUser"
    /\ \/ /\ users' = InsertUser(users, loc[r].email, loc[r].correctCount,
                                 intervalString(loc[r].totalTimeMs))
          /\ Respond(r, loc[r], "insertUser", TRUE, SubmitRes(loc[r]))
       \/ /\ Respond(r, loc[r], "insertUser", FALSE, ErrorRes)
          /\ UNCHANGED users
    /\ UNCHANGED <<now, nreq>>

(***************************************************************************)
(* The clock and the specifications                                        *)
(***************************************************************************)
\* The instants the clock takes in Spec: the start of each window.
ClockSamples == << <<0, 0>>, <<20, 0>>, <<20, 30>> >>

\* Time passes to the next sample instant (after the last, the next day).
Tick ==
    /\ \E i \in DOMAIN ClockSamples :
          /\ now = ClockSamples[i]
          /\ now' = ClockSamples[(i % Len(ClockSamples)) + 1]
    /\ learned' = (learned /\ ReadBranch(getCurrentUTCHour(now')) = "words")
    /\ UNCHANGED <<users, pc, loc, calls, last, nreq, credited>>

\* The attempts of Spec: a correct answer in 5 s, a wrong answer in 3 s, and
\* a correct answer whose time is filed under another word.
SampleAttempts ==
    { [answers |-> [w \in {"cat"} |-> "gato"], time |-> [w \in {"cat"} |-> 5000]],
      [answers |-> [w \in {"dog"} |-> "gato"], time |-> [w \in {"dog"} |-> 3000]],
      [answers |-> [w \in {"cat"} |-> "gato"], time |-> [w \in {"dog"} |-> 3000]] }

CompleteBodies ==
    { [email |-> Some(e), answers |-> Some(a.answers), time |-> Some(a.time)] :
        e \in Emails, a \in SampleAttempts }

SampleBody == CHOOSE c \in CompleteBodies : c.email = Some("a")

\* The request bodies of Spec: every complete body, and for each field a
\* body that lacks it.
Bodies ==
    CompleteBodies
    \cup { [SampleBody EXCEPT !.email = None],
           [SampleBody EXCEPT !.answers = None],
           [SampleBody EXCEPT !.time = None] }

Init ==
    /\ now \in { ClockSamples[i] : i \in DOMAIN ClockSamples }
    /\ users = EmptyBag
    /\ pc = [r \in Slots |-> "idle"]
    /\ loc = [r \in Slots |-> NoLoc]
    /\ calls = [r \in Slots |-> << >>]
    /\ last = NoLast
    /\ nreq = 0
    /\ learned = FALSE
    /\ credited = [e \in Emails |-> 0]

Step(r) ==
    \/ \E email \in Emails : ReadStart(r, email)
    \/ ReadResetRanks(r)
    \/ ReadSelectWords(r)
    \/ ReadSelectQuestions(r)
    \/ ReadSelectRanked(r)
    \/ ReadUpdateRank(r)
    \/ \E body \in Bodies : SubmitStart(r, body)
    \/ SubmitQuestions(r)
    \/ SubmitSelectUser(r)
    \/ SubmitUpdateUser(r)
    \/ SubmitInsertUser(r)

Next == Tick \/ \E r \in Slots : Step(r)

Spec == Init /\ [][Next]_vars

(***************************************************************************)
(* One handler at a time: the requests are handled one after another.      *)
(***************************************************************************)
NextSeq == Tick \/ Step(1)

SpecSeq == Init /\ [][NextSeq]_vars

(***************************************************************************)
(* The phase selector at every minute of the day: requests arrive, the     *)
(* clock stands still.                                                     *)
(***************************************************************************)
InitPhase ==
    /\ now \in (0..23) \X (0..59)
    /\ users = EmptyBag
    /\ pc = [r \in Slots |-> "idle"]
    /\ loc = [r \in Slots |-> NoLoc]
    /\ calls = [r \in Slots |-> << >>]
    /\ last = NoLast
    /\ nreq = 0
    /\ learned = FALSE
    /\ credited = [e \in Emails |-> 0]

NextPhase == \E r \in Slots, email \in Emails : ReadStart(r, email)

SpecPhase == InitPhase /\ [][NextPhase]_vars

\* The phase the specification gives for a time of day.
PhaseAt(t) ==
    IF t[1] < 20 THEN "Learning"
    ELSE IF t[1] = 20 /\ t[2] < 30 THEN "Quiz"
    ELSE "Ranking"

\* C1: a read request is dispatched to exactly one phase, the one of the time
\* of day it arrives at: Learning in [00:00, 20:00), Quiz in [20:00, 20:30),
\* Ranking in [20:30, 24:00).  (In SpecPhase the clock stands still, so now is
\* the arrival time of every read in progress.)
C1_PhaseDispatch ==
    \A r \in Slots :
        loc[r].kind = "read" =>
            /\ pc[r] \in {"resetRanks", "selectQuestions", "selectRanked"}
            /\ pc[r] = "resetRanks" <=> PhaseAt(now) = "Learning"
            /\ pc[r] = "selectQuestions" <=> PhaseAt(now) = "Quiz"
            /\ pc[r] = "selectRanked" <=> PhaseAt(now) = "Ranking"

\* C1: a read that arrives at 20:00 is served as Quiz while another one, in
\* the same minute, is too.
C1_Witness ==
    /\ now = <<20, 0>>
    /\ pc[1] = "selectQuestions"
    /\ pc[2] = "selectQuestions"

(***************************************************************************)
(* The claims about the handlers                                           *)
(***************************************************************************)
AllIdle == \A r \in Slots : pc[r] = "idle"

AllOk(cs) == \A i \in DOMAIN cs : cs[i].ok

\* Slot r sends a success response to a submission in this step.
SubmitSucceeds(r) ==
    /\ pc[r] \in {"updateUser", "insertUser"}
    /\ pc'[r] = "idle"
    /\ last'.res.status = 200

\* Row a ranks above row b: more correct answers, or as many in less time.
RanksAbove(a, b) ==
    \/ a.number_of_correct_ans > b.number_of_correct_ans
    \/ /\ a.number_of_correct_ans = b.number_of_correct_ans
       /\ TimeValue(a) < TimeValue(b)

\* C2: after a Ranking-phase read that ran to completion with no other
\* request interleaved and no store failure, the stored ranks of the N records
\* are exactly 1..N, each used once, they follow the sort keys, and the
\* leaderboard of the response carries the same ranks in ascending order.
C2_RanksAfterRanking ==
    (AllIdle /\ last.res.type = "rankings" /\ AllOk(last.calls)) =>
        LET n == BagCardinality(users)
        IN  /\ \A k \in 1..n :
                  CountRows(users, { x \in DOMAIN users : x.rank = k }) = 1
            /\ \A a, b \in DOMAIN users : RanksAbove(a, b) => a.rank < b.rank
            /\ Len(last.res.data) = n
            /\ \A i \in 1..n : /\ last.res.data[i].rank = i
                               /\ BagIn(last.res.data[i], users)

\* C3: handled one after another, a successful submission for an email that
\* has a record replaces that record's correctCount by the stored count plus
\* the attempt's count and its elapsedDuration by the HH:MM:SS text of the
\* stored duration plus the attempt's milliseconds (so the stored count is the
\* sum of the attempts' counts).
C3_MergeIntoRecord ==
    [][ \A x \in DOMAIN users :
           (SubmitSucceeds(1) /\ x.email = loc[1].email) =>
               users' = (users (-) SetToBag({x}))
                          (+) SetToBag({ [x EXCEPT
                                 !.number_of_correct_ans = @ + loc[1].correctCount,
                                 !.time = newIntervalString(
                                             intervalToMs(@) + loc[1].totalTimeMs)] })
      ]_vars

\* C4: a successful submission for an email that has no record adds exactly
\* one record, for that email, with the attempt's correct count, the attempt's
\* formatted time and rank 0, and changes no other record.
C4_InsertCreatesOne ==
    [][ \A r \in Slots :
           (SubmitSucceeds(r) /\ RowsOf(users, loc[r].email) = 0) =>
               /\ users' = users (+) SetToBag({ Row(loc[r].email,
                                                    last'.res.correctAnswers,
                                                    last'.res.timeTaken, 0) })
               /\ RowsOf(users', loc[r].email) = 1
      ]_vars

\* C4: a first submission has just created the one record of its email, next
\* to the record of another user.
C4_Witness ==
    /\ last.res.status = 200
    /\ last.request.kind = "submit"
    /\ last.calls[Len(last.calls)].op = "insertUser"
    /\ RowsOf(users, last.request.email) = 1
    /\ BagCardinality(users) = 2

\* The request lacks a required field.
Lacks(request) ==
    /\ request.kind = "submit"
    /\ request.email = "" \/ request.answers = None \/ request.time = None

\* C7: a submission that lacks email, answers or the time mapping is answered
\* with 400 (not 500) without any store call, and no record changes.
C7_ValidationFirst ==
    [][ (Lacks(last'.request) /\ (last' # last \/ nreq' # nreq)) =>
           /\ last'.res.status = 400
           /\ last'.calls = << >>
           /\ users' = users
      ]_vars

\* C7: a submission without the time mapping was rejected while records exist.
C7_Witness ==
    /\ last.request.kind = "submit"
    /\ last.request.time = None
    /\ last.request.email # ""
    /\ last.request.answers # None
    /\ last.res.status = 400
    /\ users # EmptyBag

\* C8: at most one user record per email, in every reachable state.
C8_OneRecordPerEmail == \A e \in Emails : RowsOf(users, e) <= 1

\* C9: in a Ranking-phase read a failed store call, a per-user rank update
\* included, is the read's last call (a read that goes on has seen none), and
\* the response is then the error 500.
C9_RankingAbortsOnFailure ==
    /\ \A r \in Slots : pc[r] = "updateRank" => AllOk(calls[r])
    /\ (last.request.kind = "read" /\ last.calls # << >>
          /\ last.calls[1].op = "selectRanked" /\ ~AllOk(last.calls)) =>
           /\ last.res.status = 500
           /\ AllOk(SubSeq(last.calls, 1, Len(last.calls) - 1))

\* C10: in a submission a failed store call is the request's last call (a
\* handler that goes on has seen none: no insert follows a failed fetch of the
\* record), and the response is then the error 500, never a success.
C10_SubmitAbortsOnFailure ==
    /\ \A r \in Slots : loc[r].kind = "submit" => AllOk(calls[r])
    /\ (last.request.kind = "submit" /\ ~AllOk(last.calls)) =>
           /\ last.res.status = 500
           /\ AllOk(SubSeq(last.calls, 1, Len(last.calls) - 1))

\* C11: once a read served in the Learning phase has succeeded, and for as
\* long as that Learning window lasts, every stored rank is 0, whatever other
\* requests do meanwhile (a Ranking read that chose its phase before the
\* window and still stores ranks included).
C11_RanksStayCleared == learned => \A x \in DOMAIN users : x.rank = 0

\* The records without their rank.
Unranked(table) ==
    MapRows(table, [x \in DOMAIN table |->
                      [email |-> x.email,
                       number_of_correct_ans |-> x.number_of_correct_ans,
                       time |-> x.time]])

Ops(cs) == [i \in DOMAIN cs |-> cs[i].op]

\* C12: a Learning read first sets the rank of every record to 0, changing no
\* other field, and only then fetches and returns the words: after its first
\* store call every stored rank is 0 and the records are otherwise as before,
\* and a words response ends a read whose calls were the reset, then the
\* select of the words.
C12_ResetThenWords ==
    [][ \A r \in Slots :
           /\ (pc[r] = "resetRanks" /\ pc'[r] = "selectWords") =>
                  /\ \A x \in DOMAIN users' : x.rank = 0
                  /\ Unranked(users') = Unranked(users)
           /\ (pc[r] = "selectWords" /\ pc'[r] = "idle" /\ last'.res.type = "words") =>
                  /\ Ops(last'.calls) = << "updateAllRanks", "selectWords" >>
                  /\ last'.res.data = WordsTable
      ]_vars

\* A record without its rank.
Unrank(x) ==
    [email |-> x.email, number_of_correct_ans |-> x.number_of_correct_ans,
     time |-> x.time]

\* The leaderboard L lists every record of the table once, each at the rank
\* of its position.
ListsEvery(L, table) ==
    /\ Len(L) = BagCardinality(table)
    /\ \A i \in DOMAIN L : L[i].rank = i
    /\ \A y \in DOMAIN Unranked(table) :
           Cardinality({ i \in DOMAIN L : Unrank(L[i]) = y }) = Unranked(table)[y]

\* C14: the leaderboard a Ranking read computes lists every user record; a
\* Ranking read whose store calls all succeed is answered with success and
\* type rankings, with that leaderboard; when no entry of the leaderboard has
\* the requested email the requesting-user part is absent, otherwise it is an
\* entry of the leaderboard with that email and the rank of its position.
C14_RequestingUser ==
    [][ \A r \in Slots :
           /\ (pc[r] = "selectRanked" /\ pc'[r] = "updateRank") =>
                  ListsEvery(loc'[r].rankedUsers, users)
           /\ (pc[r] = "selectRanked" /\ pc'[r] = "idle" /\ last'.res.status = 200) =>
                  ListsEvery(last'.res.data, users)
           /\ (pc[r] = "updateRank" /\ pc'[r] = "idle") =>
                  last'.res.data = loc[r].rankedUsers
           /\ (pc[r] \in {"selectRanked", "updateRank"} /\ pc'[r] = "idle"
                  /\ AllOk(last'.calls)) =>
                  LET L == last'.res.data
                      email == last'.request.email
                  IN  /\ last'.res.status = 200
                      /\ last'.res.type = "rankings"
                      /\ IF \A i \in DOMAIN L : L[i].email # email
                         THEN last'.res.user = None
                         ELSE \E i \in DOMAIN L :
                                 /\ L[i].email = email
                                 /\ L[i].rank = i
                                 /\ last'.res.user = Some(L[i])
      ]_vars

\* C14: a Ranking read for an email without a record was answered with the
\* leaderboard of the other user's record and no requesting user.
C14_Witness ==
    /\ last.res.type = "rankings"
    /\ last.res.status = 200
    /\ AllOk(last.calls)
    /\ last.res.user = None
    /\ Len(last.res.data) = 1
    /\ last.res.data[1].email # last.request.email
    /\ last.res.data[1].rank = 1

\* C15: a successful update writes the merge of the record the handler read
\* earlier (its snapshot) with its own attempt, whatever the store holds by
\* then; so when two submissions for one email read the same record before
\* either writes, the second write replaces the first one's merge and the
\* record holds one attempt's contribution instead of both (the witness).
C15_MergeFromSnapshot ==
    [][ \A r \in Slots :
           (pc[r] = "updateUser" /\ SubmitSucceeds(r)) =>
               LET snapshot == loc[r].existingUser[1]
               IN  \A x \in DOMAIN users' :
                      x.email = loc[r].email =>
                          /\ x.number_of_correct_ans
                                = snapshot.number_of_correct_ans + loc[r].correctCount
                          /\ x.time = newIntervalString(intervalToMs(snapshot.time)
                                                          + loc[r].totalTimeMs)
      ]_vars

\* C15: three submissions of user "a" were answered with success, each with
\* one correct answer (3 credited), the last one an update; the one record of
\* "a" holds 2 correct answers and 10 s: the attempt of one success is lost.
C15_Witness ==
    /\ AllIdle
    /\ credited["a"] = 3
    /\ last.request.kind = "submit"
    /\ last.request.email = "a"
    /\ last.res.status = 200
    /\ last.res.correctAnswers = 1
    /\ last.calls[Len(last.calls)].op = "updateUser"
    /\ AllOk(last.calls)
    /\ users = SetToBag({ Row("a", 2, intervalString(10000), 0) })

\* C17: from one state to the next, in every interleaving of submissions and
\* reads, the stored correctCount and the stored elapsedDuration of a user
\* (of the one record of the user's email) do not decrease.
C17_NeverDecrease ==
    [][ \A x \in DOMAIN users, y \in DOMAIN users' :
           (x.email = y.email /\ RowsOf(users, x.email) = 1
              /\ RowsOf(users', x.email) = 1) =>
               /\ y.number_of_correct_ans >= x.number_of_correct_ans
               /\ TimeValue(y) >= TimeValue(x)
      ]_vars

(***************************************************************************)
(* The aggregator on every body over Words: one submission of user "a",    *)
(* who has no record yet or has the record of a first attempt (one correct *)
(* answer in 5 s, as Spec reaches it).                                     *)
(***************************************************************************)
AllBodies ==
    [email : {Some("a")},
     answers : {Some(a) : a \in UNION { [D -> Answers] : D \in SUBSET Words }},
     time : {Some(t) : t \in UNION { [D -> Millis] : D \in SUBSET Words }}]

FirstAttemptRecord == Row("a", 1, intervalString(5000), 0)

\* The correct answers credited so far when the store holds table and every
\* record is the sum of its user's attempts.
CreditedIn(table) ==
    [e \in Emails |->
        IF \E x \in DOMAIN table : x.email = e
        THEN (CHOOSE x \in DOMAIN table : x.email = e).number_of_correct_ans
        ELSE 0]

InitAggregate ==
    /\ now = ClockSamples[1]
    /\ users \in {EmptyBag, SetToBag({FirstAttemptRecord})}
    /\ pc = [r \in Slots |-> "idle"]
    /\ loc = [r \in Slots |-> NoLoc]
    /\ calls = [r \in Slots |-> << >>]
    /\ last = NoLast
    /\ nreq = 0
    /\ learned = FALSE
    /\ credited = CreditedIn(users)

NextAggregate ==
    \/ nreq = 0 /\ \E body \in AllBodies : SubmitStart(1, body)
    \/ SubmitQuestions(1)
    \/ SubmitSelectUser(1)
    \/ SubmitUpdateUser(1)
    \/ SubmitInsertUser(1)

SpecAggregate == InitAggregate /\ [][NextAggregate]_vars

\* The words of the answers that have a question whose accepted answer is the
\* submitted one.
CorrectWords(answers) ==
    { w \in DOMAIN answers :
        \E i \in DOMAIN Questions :
            Questions[i].word = w /\ Questions[i].correct = answers[w] }

\* C5: the correct count reported for an attempt is the number of words of
\* the answers that have a question whose accepted answer is the submitted
\* one; a word without a question adds nothing and fails nothing: a complete
\* request whose store calls all succeed is answered with success.
C5_CorrectCount ==
    (last.request.kind = "submit" /\ ~Lacks(last.request) /\ AllOk(last.calls)) =>
        /\ last.res.status = 200
        /\ last.res.correctAnswers = Cardinality(CorrectWords(last.request.answers[1]))

\* C5: a success that reports 1 for one accepted answer, one wrong answer and
\* one word that has no question.
C5_Witness ==
    /\ last.res.status = 200
    /\ last.request.answers = Some([w \in Words |->
                                      IF w = "cat" THEN "gato"
                                      ELSE IF w = "dog" THEN "gato" ELSE "perro"])
    /\ last.res.correctAnswers = 1

\* The sum of the times filed under the words S.
RECURSIVE SumTimes(_, _)
SumTimes(time, S) ==
    IF S = {} THEN 0
    ELSE LET w == CHOOSE v \in S : TRUE
         IN  time[w] + SumTimes(time, S \ {w})

\* The text of a whole number of seconds below ten.
SecondsText(n) == << "0", "0", ":", "0", "0", ":", "0", Digits[n + 1] >>

\* C6: the timeTaken of the response is the sum of the times of exactly the
\* words that are keys of the answers (a word with no time adds 0, a time with
\* no answer adds nothing), for this attempt alone, truncated to whole seconds.
C6_AttemptTime ==
    (last.request.kind = "submit" /\ last.res.status = 200) =>
        LET answers == last.request.answers[1]
            time == last.request.time[1]
            ms == SumTimes(time, DOMAIN answers \cap DOMAIN time)
        IN  last.res.timeTaken = SecondsText(ms \div 1000)

\* C6: a second attempt of the user (merged into the record) with an answer
\* that has no time and a time that has no answer reports its own 1.5 s as 1 s.
C6_Witness ==
    /\ last.res.status = 200
    /\ last.calls[Len(last.calls)].op = "updateUser"
    /\ DOMAIN last.request.answers[1] = {"cat", "dog"}
    /\ last.request.time = Some([w \in {"dog", "owl"} |->
                                   IF w = "dog" THEN 1500 ELSE 3000])
    /\ last.res.timeTaken = SecondsText(1)
    /\ \E x \in DOMAIN users : TimeValue(x) > 1000

(***************************************************************************)
(* The duration codec on attempts of up to 500 hours: one submission of    *)
(* user "a" (no record yet, or the record of a first attempt of 5 s) whose *)
(* single answer took any of CodecTimes milliseconds.                      *)
(***************************************************************************)
CodecHours == {0, 1, 9, 10, 23, 24, 25, 99, 100, 101, 500}
CodecMinutes == {0, 9, 10, 59}
CodecSeconds == {0, 9, 10, 59}
CodecMillis == {0, 1, 999}

CodecTimes ==
    { ((h * 60 + m) * 60 + sec) * 1000 + f :
        h \in CodecHours, m \in CodecMinutes, sec \in CodecSeconds, f \in CodecMillis }

CodecBodies ==
    { [email |-> Some("a"),
       answers |-> Some([w \in {"cat"} |-> "gato"]),
       time |-> Some([w \in {"cat"} |-> ms])] : ms \in CodecTimes }

NextCodec ==
    \/ nreq = 0 /\ \E body \in CodecBodies : SubmitStart(1, body)
    \/ SubmitQuestions(1)
    \/ SubmitSelectUser(1)
    \/ SubmitUpdateUser(1)
    \/ SubmitInsertUser(1)

SpecCodec == InitAggregate /\ [][NextCodec]_vars

\* C13: parsing the HH:MM:SS text that formatting a millisecond count gives
\* yields the count truncated to whole seconds, also from 24 hours and from
\* 100 hours on: for the attempt's time in the response and for the
\* cumulative time written to the record (5 s of the first attempt plus this
\* attempt when the record is updated, this attempt alone when it is created).
C13_ParseOfFormat ==
    (last.request.kind = "submit" /\ last.res.status = 200) =>
        LET ms == last.request.time[1]["cat"]
            prior == IF last.calls[Len(last.calls)].op = "updateUser" THEN 5000 ELSE 0
        IN  /\ intervalToMs(last.res.timeTaken) = (ms \div 1000) * 1000
            /\ \E x \in DOMAIN users :
                   intervalToMs(x.time) = ((prior + ms) \div 1000) * 1000

\* C13: an attempt of 100:59:59.999 was merged into the record of 5 s: the
\* response carries 100:59:59 and the record 101:00:04.
C13_Witness ==
    /\ last.res.status = 200
    /\ last.request.time = Some([w \in {"cat"} |-> 363599999])
    /\ last.calls[Len(last.calls)].op = "updateUser"
    /\ last.res.timeTaken = << "1", "0", "0", ":", "5", "9", ":", "5", "9" >>
    /\ users = SetToBag({ Row("a", 2, << "1", "0", "1", ":", "0", "0", ":", "0", "4" >>, 0) })

(***************************************************************************)
(* The handlers over a store that a Ranking read has ranked: user "a" (one *)
(* correct answer in 5 s) at rank 1 and user "b" (none in 3 s) at rank 2,  *)
(* as Spec reaches it with two first attempts and a read after 20:30.      *)
(***************************************************************************)
RankedStore ==
    SetToBag({ Row("a", 1, intervalString(5000), 1),
               Row("b", 0, intervalString(3000), 2) })

InitRanked ==
    /\ now \in { ClockSamples[i] : i \in DOMAIN ClockSamples }
    /\ users = RankedStore
    /\ pc = [r \in Slots |-> "idle"]
    /\ loc = [r \in Slots |-> NoLoc]
    /\ calls = [r \in Slots |-> << >>]
    /\ last = NoLast
    /\ nreq = 0
    /\ learned = FALSE
    /\ credited = CreditedIn(users)

\* The requests over the ranked store: reads of "b", a further attempt of "a"
\* (one correct answer in 5 s) and one of "b" (one correct answer, no time
\* filed under it), which puts "b" ahead of "a".
RankedBodies ==
    { [email |-> Some("a"), answers |-> Some([w \in {"cat"} |-> "gato"]),
       time |-> Some([w \in {"cat"} |-> 5000])],
      [email |-> Some("b"), answers |-> Some([w \in {"cat"} |-> "gato"]),
       time |-> Some([w \in {"dog"} |-> 3000])] }

StepRanked(r) ==
    \/ ReadStart(r, "b")
    \/ ReadResetRanks(r)
    \/ ReadSelectWords(r)
    \/ ReadSelectQuestions(r)
    \/ ReadSelectRanked(r)
    \/ ReadUpdateRank(r)
    \/ \E body \in RankedBodies : SubmitStart(r, body)
    \/ SubmitQuestions(r)
    \/ SubmitSelectUser(r)
    \/ SubmitUpdateUser(r)
    \/ SubmitInsertUser(r)

NextRanked == Tick \/ \E r \in Slots : StepRanked(r)

SpecRanked == InitRanked /\ [][NextRanked]_vars

\* The records of the other emails.
Others(table, email) ==
    [x \in { y \in DOMAIN table : y.email # email } |-> table[x]]

\* C16: one pass of the loop of a Ranking read stores the rank of one email
\* only: the records of every other email stay as they are, old rank
\* included, and the records of that email change in nothing but the rank.
\* Between two passes the store therefore holds new and old ranks side by
\* side, for any request that reads it then (the witness).
C16_RankRewriteStepwise ==
    [][ \A r \in Slots :
           (pc[r] = "updateRank"
              /\ (pc'[r] = "idle" \/ loc'[r].idx # loc[r].idx)) =>
               LET user == loc[r].rankedUsers[loc[r].idx]
               IN  /\ Others(users', user.email) = Others(users, user.email)
                   /\ Unranked(users') = Unranked(users)
                   /\ \A x \in DOMAIN users' :
                          x.email = user.email =>
                              \/ x.rank = user.rank
                              \/ users' = users
      ]_vars

\* C16: a Ranking read has stored the new rank 1 of "b" and not yet the new
\* rank 2 of "a", whose record still has its old rank 1, while another
\* request is about to read the user records: both records are at rank 1.
C16_Witness ==
    /\ pc[1] = "updateRank"
    /\ loc[1].idx = 2
    /\ AllOk(calls[1])
    /\ loc[1].rankedUsers[1].email = "b"
    /\ loc[1].rankedUsers[2].email = "a"
    /\ pc[2] \in {"selectUser", "selectRanked"}
    /\ \A x \in DOMAIN users : x.rank = 1
    /\ RowsOf(users, "a") = 1
    /\ RowsOf(users, "b") = 1

\* The email and the rank of every record.
Ranks(table) ==
    MapRows(table, [x \in DOMAIN table |-> [email |-> x.email, rank |-> x.rank]])

IsWrite(call) == call.op \in {"updateUser", "insertUser"}

\* C18: a submission leaves the records of every other email as they are and
\* the rank of every existing record as it is.  Its selects write nothing;
\* its update changes records of the submitted email only, in correctCount
\* and elapsedDuration only; its insert adds one record of that email with
\* rank 0; and a submission makes at most one write, as its last store call.
C18_SubmitFrame ==
    [][ \A r \in Slots :
           LET email == loc[r].email
           IN  /\ (pc[r] \in {"submitQuestions", "selectUser"} /\ pc'[r] # pc[r]) =>
                      users' = users
               /\ (pc[r] = "updateUser" /\ pc'[r] = "idle") =>
                      /\ Others(users', email) = Others(users, email)
                      /\ Ranks(users') = Ranks(users)
               /\ (pc[r] = "insertUser" /\ pc'[r] = "idle") =>
                      \/ users' = users
                      \/ \E x \in DOMAIN users' :
                             /\ x.email = email
                             /\ x.rank = 0
                             /\ users' = users (+) SetToBag({x})
               /\ (loc[r].kind = "submit" /\ pc'[r] = "idle") =>
                      \A i \in DOMAIN last'.calls :
                          IsWrite(last'.calls[i]) => i = Len(last'.calls)
      ]_vars

\* C18: a second attempt of "b" (one correct answer, no time) was merged into
\* b's record, which keeps its rank 2 and its 3 s; the record of "a" is as it
\* was, rank 1 included.
C18_Witness ==
    /\ last.request.kind = "submit"
    /\ last.request.email = "b"
    /\ last.res.status = 200
    /\ last.calls[Len(last.calls)].op = "updateUser"
    /\ users = SetToBag({ Row("a", 1, intervalString(5000), 1),
                          Row("b", 1, intervalString(3000), 2) })

\* The handler of slot r takes a step.
Acts(r) == pc'[r] # pc[r] \/ calls'[r] # calls[r]

\* C19: no step of a read changes the correctCount or the elapsedDuration of
\* any record, in any phase: the start of a read and its selects write
\* nothing, a Quiz read makes the select of the questions as its only store
\* call, and the reset of a Learning read and the rank updates of a Ranking
\* read leave every record as it is but for the rank.
C19_ReadFrame ==
    [][ \A r \in Slots :
           /\ (loc[r].kind = "read" /\ Acts(r)) => Unranked(users') = Unranked(users)
           /\ (loc'[r].kind = "read" /\ pc[r] = "idle") => users' = users
           /\ (pc[r] \in {"selectWords", "selectQuestions", "selectRanked"} /\ Acts(r)) =>
                  users' = users
           /\ (pc[r] = "selectQuestions" /\ Acts(r)) =>
                  Ops(last'.calls) = << "selectQuestions" >>
      ]_vars

\* C19: a Learning read was answered with the words after its reset cleared
\* the ranks 1 and 2: both records keep their correctCount and their time.
C19_Witness ==
    /\ last.request.kind = "read"
    /\ last.res.type = "words"
    /\ AllOk(last.calls)
    /\ users = SetToBag({ Row("a", 1, intervalString(5000), 0),
                          Row("b", 0, intervalString(3000), 0) })

(***************************************************************************)
(* The aggregator over a record whose stored time is not a duration: one   *)
(* submission of user "a", whose record (one correct answer) has a time    *)
(* that is absent or empty (the empty text stands for both: the code tests *)
(* them with the same !interval) or a text without the pattern.            *)
(***************************************************************************)
MalformedTimes ==
    { << >>,
      << "a", "b", "c" >>,
      << "1", "2", ":", "3", "0" >>,
      << "1", "2", ":", ":", "3", "0" >>,
      << ":", "0", "5", ":", "0", "9" >>,
      << "1", "2", ":", "3", "0", ":", "x" >>,
      << "1", " ", "d", "a", "y" >> }

InitMalformed ==
    /\ now = ClockSamples[1]
    /\ users \in { SetToBag({ Row("a", 1, t, 0) }) : t \in MalformedTimes }
    /\ pc = [r \in Slots |-> "idle"]
    /\ loc = [r \in Slots |-> NoLoc]
    /\ calls = [r \in Slots |-> << >>]
    /\ last = NoLast
    /\ nreq = 0
    /\ learned = FALSE
    /\ credited = CreditedIn(users)

SpecMalformed == InitMalformed /\ [][NextAggregate]_vars

\* C20: when the stored elapsedDuration of the record is absent, empty or
\* without an HH:MM:SS pattern, a submission for its email whose store calls
\* succeed is answered with success, not with an error, and updates the
\* record: the stored elapsedDuration becomes the text of this attempt's time
\* alone (the prior time counts as 0), the count the prior count plus the
\* attempt's.
C20_MalformedAsZero ==
    (last.request.kind = "submit" /\ AllOk(last.calls)) =>
        /\ last.res.status = 200
        /\ last.calls[Len(last.calls)].op = "updateUser"
        /\ users = SetToBag({ Row("a", 1 + last.res.correctAnswers,
                                  last.res.timeTaken, 0) })

\* C20: an attempt of 4.5 s with one correct answer was merged into the
\* record: the stored time is 00:00:04.
C20_Witness ==
    /\ last.res.status = 200
    /\ AllOk(last.calls)
    /\ last.request.time = Some([w \in {"cat", "dog"} |->
                                   IF w = "cat" THEN 1500 ELSE 3000])
    /\ DOMAIN last.request.answers[1] = {"cat", "dog"}
    /\ users = SetToBag({ Row("a", 2, SecondsText(4), 0) })

====
